---- MODULE Spec2Model ----
(***************************************************************************)
(* QueryMan: the tab / panel coordinator of the App component              *)
(* (src/src/App.jsx, function App at line 1842) together with the local    *)
(* state of the SQLEditor component (src/unnamed/part_000).                *)
(*                                                                         *)
(* One action is one task of the browser's event loop: an event handler,   *)
(* the render it causes and the effects of that render, repeated until no  *)
(* state changes; or one timer callback; or one completion of the query    *)
(* adapter.                                                                *)
(*                                                                         *)
(* Texts and names are sequences of tokens (words, " " and ";"), so that   *)
(* trim() and the name pattern act on them.                                *)
(***************************************************************************)
EXTENDS Integers, Sequences, FiniteSets, TLC

\* ------------------------------------------------------------------ bounds
MaxIds == 4          \* nanoid() values handed out (editor and output tabs)
MaxTabs == 3         \* editor tabs open at once
MaxOut == 2          \* output tabs open at once
MaxInflight == 2     \* adapter executions in flight at once
MaxTimers == 0       \* setTimeout(0) callbacks pending at once
MaxRenders == 8      \* render passes of one task
MaxPending == 2      \* setTimeout(0) callbacks pending when an early user event arrives
MaxOutClose == 3     \* output tabs open at once, where closing must choose among several
MaxIdsClose == 5     \* nanoid() values handed out there

\* ------------------------------------------------------------- null values
Null == "null"            \* null id
NoRows == "none"          \* results === null
NoTime == 0               \* executionTime === null
NoError == "none"         \* customError === null
NoMatchError == "nomatch"
HistoryError == "history"

\* ------------------------------------------------------------------- texts
SP == " "
IsSpace(tok) == tok = SP

RECURSIVE TrimStart(_)
TrimStart(t) ==
  IF t # <<>> /\ IsSpace(Head(t)) THEN TrimStart(Tail(t)) ELSE t

RECURSIVE TrimEnd(_)
TrimEnd(t) ==
  IF t # <<>> /\ IsSpace(t[Len(t)]) THEN TrimEnd(SubSeq(t, 1, Len(t) - 1)) ELSE t

\* String.prototype.trim
Trim(t) == TrimEnd(TrimStart(t))

Q1Text == <<"SELECT", SP, "*", SP, "FROM", SP, "users", ";">>
Q2Text == <<"SELECT", SP, "*", SP, "FROM", SP, "orders", SP, "LIMIT", SP, "100", ";">>

\* the catalog: ./data/mockData
predefinedQueries ==
  << [id |-> "q1", name |-> <<"All", SP, "Users">>, query |-> Q1Text],
     [id |-> "q2", name |-> <<"Recent", SP, "Orders">>, query |-> Q2Text] >>

CatalogIds == {predefinedQueries[i].id : i \in DOMAIN predefinedQueries}

\* predefinedQueries.find((q) => q.id === id): its index, 0 when undefined
FindById(id) ==
  IF \E i \in DOMAIN predefinedQueries : predefinedQueries[i].id = id
  THEN CHOOSE i \in DOMAIN predefinedQueries :
         /\ predefinedQueries[i].id = id
         /\ \A j \in 1..(i - 1) : predefinedQueries[j].id # id
  ELSE 0

\* q.query.trim() === query.trim()
TextEquals(a, b) == Trim(a) = Trim(b)

\* predefinedQueries.find((q) => q.query.trim() === text.trim())
FindByText(text) ==
  IF \E i \in DOMAIN predefinedQueries : TextEquals(predefinedQueries[i].query, text)
  THEN CHOOSE i \in DOMAIN predefinedQueries :
         /\ TextEquals(predefinedQueries[i].query, text)
         /\ \A j \in 1..(i - 1) : ~TextEquals(predefinedQueries[j].query, text)
  ELSE 0

\* the tables the explorer shows
Tables == {"orders"}

SelectSQLMut(t) == <<"SELECT", SP, "*", SP, "FROM", SP, t, ";">>

\* `SELECT * FROM ${tableName} LIMIT 100;`
SelectSQL(t) == <<"SELECT", SP, "*", SP, "FROM", SP, t, SP, "LIMIT", SP, "100", ";">>
\* `SELECT COUNT(*) FROM ${tableName};`
CountSQL(t) == <<"SELECT", SP, "COUNT(*)", SP, "FROM", SP, t, ";">>

\* what the user types into the editor widget
TypedTexts ==
  { SubSeq(Q1Text, 1, Len(Q1Text) - 1),       \* a catalog query without its semicolon
    <<SP>> \o Q1Text \o <<SP>> }              \* a catalog query with blanks around it

\* what the user types into the rename input
Drafts == { <<SP, "Mine", SP>>, <<SP>> }

\* elapsed times the adapter reports
ExecTimes == {1}

\* ----------------------------------------------------------- name pattern
Actions == {"SELECT", "INSERT", "UPDATE", "DELETE", "CREATE", "ALTER", "DROP"}
IsTarget(tok) == ~IsSpace(tok) /\ tok # ";"

\* positions p of t where FROM\s+ ends and a target token starts
FromTargets(t) ==
  { p \in 3..Len(t) :
      /\ IsTarget(t[p])
      /\ IsSpace(t[p - 1])
      /\ \E f \in 2..(p - 2) : t[f] = "FROM" /\ \A k \in (f + 1)..(p - 1) : IsSpace(t[k]) }

\* /^\s*(SELECT|...)\s+(?:.*?FROM\s+)?([^\s;]+)/i on the trimmed text:
\* <<action, " ", target>>, or "New Query"
DeriveName(text) ==
  LET t == Trim(text)
  IN IF Len(t) >= 3 /\ t[1] \in Actions /\ IsSpace(t[2])
     THEN LET firstTok == CHOOSE p \in 3..Len(t) :
                            ~IsSpace(t[p]) /\ \A k \in 3..(p - 1) : IsSpace(t[k])
              cands == FromTargets(t)
          IN IF cands # {}
             THEN <<t[1], SP, t[CHOOSE p \in cands : \A q \in cands : p <= q]>>
             ELSE IF IsTarget(t[firstTok])
                  THEN <<t[1], SP, t[firstTok]>>
                  ELSE <<"New", SP, "Query">>
     ELSE <<"New", SP, "Query">>

\* ------------------------------------------------------------------ state
VARIABLES
  queryTabs,          \* App: editor tabs, <<[id, name, queryId, query, renamed]>>
  activeTabId,        \* App
  currentQueryId,     \* App
  queryText,          \* App
  editingTabId,       \* App: rename in progress
  newTabName,         \* App: rename draft
  outputTabs,         \* App: <<[id, name, queryId, queryTabId, sourceTabId, timestamp]>>
  activeOutputTabId,  \* App
  tabResults,         \* App: output tab id -> [data, executionTime]
  tabTypes,           \* App: output tab id -> "results" | "visualization"
  customError,        \* App
  queryModified,      \* App
  activePanel,        \* App
  layoutDirection,    \* App
  isFullScreen,       \* App
  isUpdatingQuery,    \* App: ref
  isUpdatingTab,      \* App: ref
  timers,             \* pending setTimeout(0) callbacks, in the order they were set
  results,            \* useSQLQuery
  loading,            \* useSQLQuery
  executionTime,      \* useSQLQuery
  queryHistory,       \* useSQLQuery
  inflight,           \* useSQLQuery: executions whose callback has not run yet
  edQuery,            \* SQLEditor: query
  edPrevInitial,      \* SQLEditor: prevInitialQueryRef
  edUpdating,         \* SQLEditor: isUpdatingRef
  nextId,             \* nanoid() calls made so far, plus one
  now,                \* the clock new Date() reads
  crashed,            \* a render threw: the tree is unmounted
  splitSize,          \* App: percentage, as a fraction <<numerator, denominator>>
  isDragging,         \* App: isDraggingRef
  startPos,           \* App: startPosRef
  startSize,          \* App: startSizeRef
  listeners,          \* document: the attached mousemove/mouseup handler pairs, each
                      \* [first, direction]: the render that made it and what it closes over
  firstRender,        \* the handlers of the current render are those of the mount render
  mounted             \* the host has not unmounted App

layoutVars == <<splitSize, isDragging, startPos, startSize, listeners>>

vars ==
  << queryTabs, activeTabId, currentQueryId, queryText, editingTabId, newTabName,
     outputTabs, activeOutputTabId, tabResults, tabTypes, customError, queryModified,
     activePanel, layoutDirection, isFullScreen, isUpdatingQuery, isUpdatingTab,
     timers, results, loading, executionTime, queryHistory, inflight, edQuery,
     edPrevInitial, edUpdating, nextId, now, crashed,
     splitSize, isDragging, startPos, startSize, listeners, firstRender, mounted >>

\* the state as one record; tabsNew and replaced say which objects a batch of
\* updates created anew (React compares dependencies by identity)
Snap ==
  [ queryTabs |-> queryTabs, activeTabId |-> activeTabId,
    currentQueryId |-> currentQueryId, queryText |-> queryText,
    editingTabId |-> editingTabId, newTabName |-> newTabName,
    outputTabs |-> outputTabs, activeOutputTabId |-> activeOutputTabId,
    tabResults |-> tabResults, tabTypes |-> tabTypes, customError |-> customError,
    queryModified |-> queryModified, activePanel |-> activePanel,
    layoutDirection |-> layoutDirection, isFullScreen |-> isFullScreen,
    isUpdatingQuery |-> isUpdatingQuery, isUpdatingTab |-> isUpdatingTab,
    timers |-> timers, results |-> results, loading |-> loading,
    executionTime |-> executionTime, queryHistory |-> queryHistory,
    inflight |-> inflight, edQuery |-> edQuery, edPrevInitial |-> edPrevInitial,
    edUpdating |-> edUpdating, nextId |-> nextId, now |-> now, crashed |-> crashed,
    tabsNew |-> FALSE, replaced |-> {} ]

Install(r) ==
  /\ queryTabs' = r.queryTabs
  /\ activeTabId' = r.activeTabId
  /\ currentQueryId' = r.currentQueryId
  /\ queryText' = r.queryText
  /\ editingTabId' = r.editingTabId
  /\ newTabName' = r.newTabName
  /\ outputTabs' = r.outputTabs
  /\ activeOutputTabId' = r.activeOutputTabId
  /\ tabResults' = r.tabResults
  /\ tabTypes' = r.tabTypes
  /\ customError' = r.customError
  /\ queryModified' = r.queryModified
  /\ activePanel' = r.activePanel
  /\ layoutDirection' = r.layoutDirection
  /\ isFullScreen' = r.isFullScreen
  /\ isUpdatingQuery' = r.isUpdatingQuery
  /\ isUpdatingTab' = r.isUpdatingTab
  /\ timers' = r.timers
  /\ results' = r.results
  /\ loading' = r.loading
  /\ executionTime' = r.executionTime
  /\ queryHistory' = r.queryHistory
  /\ inflight' = r.inflight
  /\ edQuery' = r.edQuery
  /\ edPrevInitial' = r.edPrevInitial
  /\ edUpdating' = r.edUpdating
  /\ nextId' = r.nextId
  /\ now' = r.now
  /\ crashed' = r.crashed

\* --------------------------------------------------------------- helpers
\* F applied to the value of e: e is evaluated once, as a JavaScript expression
\* assigned to a const is
By(e, F(_)) == CHOOSE y \in {F(x) : x \in {e}} : TRUE

\* tabs.find((t) => t.id === id): its index, 0 when undefined
FindTab(tabs, id) ==
  IF \E i \in DOMAIN tabs : tabs[i].id = id
  THEN CHOOSE i \in DOMAIN tabs : tabs[i].id = id
  ELSE 0

TabIds(tabs) == {tabs[i].id : i \in DOMAIN tabs}

\* tabs.filter((tab) => tab.id !== id)
RECURSIVE Without(_, _)
Without(tabs, id) ==
  IF tabs = <<>> THEN <<>>
  ELSE IF Head(tabs).id = id THEN Without(Tail(tabs), id)
       ELSE <<Head(tabs)>> \o Without(Tail(tabs), id)

\* const activeTab = queryTabs.find((tab) => tab.id === activeTabId) || queryTabs[0]
ActiveTabOf(s) ==
  IF FindTab(s.queryTabs, s.activeTabId) # 0
  THEN s.queryTabs[FindTab(s.queryTabs, s.activeTabId)]
  ELSE s.queryTabs[1]

\* delete obj[id]
Remove(f, id) == [k \in (DOMAIN f) \ {id} |-> f[k]]
\* {...obj, [id]: v}
Put(f, id, v) == [k \in (DOMAIN f) \cup {id} |-> IF k = id THEN v ELSE f[k]]

\* ---------------------------------------------------------------- effects
\* Each effect reads the values of the render it belongs to (c), the refs as they
\* are now, and queues its updates (a).

\* SQLEditor: useEffect(..., [initialQuery])
EffInitialQuery(c, a) ==
  IF ~a.edUpdating /\ c.queryText # a.edPrevInitial
  THEN [a EXCEPT !.edUpdating = TRUE, !.edQuery = c.queryText,
                 !.edPrevInitial = c.queryText, !.timers = Append(@, "editor")]
  ELSE a

\* App: sync the active tab with currentQueryId and queryText
EffTabToEditor(c, a) ==
  IF a.isUpdatingQuery THEN a
  ELSE [a EXCEPT !.isUpdatingTab = TRUE,
                 !.currentQueryId = ActiveTabOf(c).queryId,
                 !.queryText = ActiveTabOf(c).query,
                 !.timers = Append(@, "tab")]

\* App: update the active tab when query changes
EffEditorToTab(c, a) ==
  IF a.isUpdatingTab THEN a
  ELSE LET i == FindTab(c.queryTabs, c.activeTabId)
           stale == i # 0 /\ (c.queryTabs[i].query # c.queryText
                              \/ c.queryTabs[i].queryId # c.currentQueryId)
           b == [a EXCEPT !.isUpdatingQuery = TRUE, !.timers = Append(@, "query")]
       IN IF stale
          THEN [b EXCEPT !.queryTabs =
                           [k \in DOMAIN @ |->
                              IF @[k].id = c.activeTabId
                              THEN [@[k] EXCEPT !.query = c.queryText,
                                                !.queryId = c.currentQueryId]
                              ELSE @[k]],
                         !.tabsNew = TRUE,
                         !.replaced = @ \cup {c.activeTabId}]
          ELSE b

\* App: set tab name based on query
EffDeriveName(c, a) ==
  LET i == FindTab(c.queryTabs, c.activeTabId)
  IN IF a.isUpdatingTab \/ a.isUpdatingQuery THEN a
     ELSE IF i = 0 THEN a
     ELSE IF c.queryTabs[i].renamed THEN a
     ELSE IF DeriveName(c.queryTabs[i].query) # c.queryTabs[i].name
          THEN [a EXCEPT !.queryTabs =
                           [k \in DOMAIN @ |->
                              IF @[k].id = c.activeTabId
                              THEN [@[k] EXCEPT !.name = DeriveName(c.queryTabs[i].query)]
                              ELSE @[k]],
                         !.tabsNew = TRUE,
                         !.replaced = @ \cup {c.activeTabId}]
          ELSE a

\* App: clear error on query change
EffClearError(c, a) ==
  IF c.customError # NoError THEN [a EXCEPT !.customError = NoError] ELSE a

\* App: handle query selector change
EffQuerySelector(c, a) ==
  IF FindById(c.currentQueryId) # 0
  THEN [a EXCEPT !.queryText = predefinedQueries[FindById(c.currentQueryId)].query]
  ELSE a

EffExitFullScreenMut(c, a) == a

\* App: exit fullscreen mode when results are cleared
EffExitFullScreen(c, a) ==
  IF c.results = NoRows /\ c.isFullScreen THEN [a EXCEPT !.isFullScreen = FALSE] ELSE a

\* the dependencies that differ between the previous render and this one
Deps(pre, post) ==
  [ activeTabId |-> pre.activeTabId # post.activeTabId,
    activeTab |-> \/ ActiveTabOf(pre).id # ActiveTabOf(post).id
                  \/ ActiveTabOf(post).id \in post.replaced,
    queryTabs |-> post.tabsNew,
    queryText |-> pre.queryText # post.queryText,
    currentQueryId |-> pre.currentQueryId # post.currentQueryId,
    results |-> pre.results # post.results,
    isFullScreen |-> pre.isFullScreen # post.isFullScreen ]

Rendered(s) == [s EXCEPT !.tabsNew = FALSE, !.replaced = {}]

\* the effects of one render, the child's first and then App's in source order
EffectsPass(c, d) ==
  By(Rendered(c), LAMBDA a0 :
  By(IF d.queryText THEN EffInitialQuery(c, a0) ELSE a0, LAMBDA a1 :
  By(IF d.activeTabId \/ d.activeTab THEN EffTabToEditor(c, a1) ELSE a1, LAMBDA a2 :
  By(IF d.queryText \/ d.currentQueryId \/ d.activeTabId \/ d.queryTabs
     THEN EffEditorToTab(c, a2) ELSE a2, LAMBDA a3 :
  By(IF d.activeTabId \/ d.queryTabs THEN EffDeriveName(c, a3) ELSE a3, LAMBDA a4 :
  By(IF d.queryText THEN EffClearError(c, a4) ELSE a4, LAMBDA a5 :
  By(IF d.currentQueryId THEN EffQuerySelector(c, a5) ELSE a5, LAMBDA a6 :
  IF d.results \/ d.isFullScreen THEN EffExitFullScreen(c, a6) ELSE a6)))))))

\* the state React compares to decide whether to render again
ReactState(s) ==
  << s.queryTabs, s.activeTabId, s.currentQueryId, s.queryText, s.editingTabId,
     s.newTabName, s.outputTabs, s.activeOutputTabId, s.tabResults, s.tabTypes,
     s.customError, s.queryModified, s.activePanel, s.layoutDirection,
     s.isFullScreen, s.results, s.loading, s.executionTime, s.queryHistory,
     s.edQuery >>

\* {`Results: ${currentQuery.name}`} with currentQuery undefined; or no editor
\* tab at all, where activeTab is undefined and activeTab.queryId throws
RenderThrows(s) ==
  \/ /\ s.activeOutputTabId # Null
     /\ s.activeOutputTabId \in DOMAIN s.tabResults
     /\ ~s.loading
     /\ FindById(s.currentQueryId) = 0
  \/ s.queryTabs = <<>>

\* render, run the effects, apply their updates, until nothing changes
RECURSIVE Commit(_, _, _)
Commit(pre, post, depth) ==
  By(<<pre, post>>, LAMBDA v :
    IF ReactState(v[1]) = ReactState(v[2]) /\ ~v[2].tabsNew THEN Rendered(v[2])
    ELSE IF RenderThrows(v[2]) THEN [Rendered(v[2]) EXCEPT !.crashed = TRUE]
    ELSE IF depth >= MaxRenders
         THEN [Rendered(v[2]) EXCEPT !.crashed = TRUE, !.customError = "overflow"]
    ELSE By(Deps(v[1], v[2]), LAMBDA d :
           Commit(Rendered(v[2]), EffectsPass(v[2], d), depth + 1)))

\* the state after mount: the first render and all its effects
Mounted(s) ==
  LET all == [ activeTabId |-> TRUE, activeTab |-> TRUE, queryTabs |-> TRUE,
               queryText |-> TRUE, currentQueryId |-> TRUE, results |-> TRUE,
               isFullScreen |-> TRUE ]
  IN Commit(s, EffectsPass(s, all), 1)


\* ---------------------------------------------------------------- handlers
\* Each handler maps the state of the render it was created in to the state after
\* its batch of updates.

\* nanoid()
NewId(s) == ToString(s.nextId)
NewId2(s) == ToString(s.nextId + 1)

EmptyMap == [k \in {} |-> Null]

\* useSQLQuery: executeQuery(queryText, queryId, label, onComplete)
executeQuery(s, req) ==
  [s EXCEPT !.loading = TRUE, !.inflight = Append(@, req)]

\* useSQLQuery: clearResults()
clearResults(s) ==
  [s EXCEPT !.results = NoRows, !.executionTime = NoTime]

\* onClick={() => setActiveTabId(tab.id)}
selectEditorTab(s, tabId) == [s EXCEPT !.activeTabId = tabId]

addNewTab(s) ==
  LET newTab == [ id |-> NewId(s), name |-> <<"New", SP, "Query">>,
                  queryId |-> predefinedQueries[1].id,
                  query |-> predefinedQueries[1].query, renamed |-> FALSE ]
  IN [s EXCEPT !.queryTabs = Append(@, newTab), !.tabsNew = TRUE,
               !.activeTabId = newTab.id, !.nextId = @ + 1]

closeTabGuardMut(s) == FALSE

\* if (queryTabs.length === 1) return;
closeTabGuard(s) == Len(s.queryTabs) = 1

lastTabIdMut(newTabs) == newTabs[1].id

\* newTabs[newTabs.length - 1].id
lastTabId(newTabs) == newTabs[Len(newTabs)].id

closeTab(s, tabId) ==
  IF closeTabGuard(s) THEN s
  ELSE LET newTabs == Without(s.queryTabs, tabId)
       IN [s EXCEPT !.queryTabs = newTabs, !.tabsNew = TRUE,
                    \* newTabs[newTabs.length - 1].id throws on an empty list,
                    \* after setQueryTabs has been queued
                    !.activeTabId = IF tabId = s.activeTabId /\ newTabs # <<>>
                                    THEN lastTabId(newTabs) ELSE @]

handleTabDoubleClick(s, tabId, currentName) ==
  [s EXCEPT !.editingTabId = tabId, !.newTabName = currentName]

\* onChange={(e) => setNewTabName(e.target.value)}
setNewTabName(s, draft) == [s EXCEPT !.newTabName = draft]

commitsRenameMut(s) == s.editingTabId # Null /\ s.newTabName # <<>>

\* if (editingTabId && newTabName.trim())
commitsRename(s) == s.editingTabId # Null /\ Trim(s.newTabName) # <<>>

handleTabRename(s) ==
  LET a == IF commitsRename(s)
           THEN [s EXCEPT !.queryTabs =
                            [k \in DOMAIN @ |->
                               IF @[k].id = s.editingTabId
                               THEN [@[k] EXCEPT !.name = Trim(s.newTabName),
                                                 !.renamed = TRUE]
                               ELSE @[k]],
                          !.tabsNew = TRUE,
                          !.replaced = @ \cup {s.editingTabId}]
           ELSE s
  IN [a EXCEPT !.editingTabId = Null, !.newTabName = <<>>]

\* handleRenameKeyDown, e.key === "Escape"
renameEscape(s) == [s EXCEPT !.editingTabId = Null, !.newTabName = <<>>]

nameAfterQueryChangeMut(isRenamed, tabName, queryName) == queryName

\* name: isRenamed ? tab.name : query.name
nameAfterQueryChange(isRenamed, tabName, queryName) ==
  IF isRenamed THEN tabName ELSE queryName

handleQueryChange(s, queryId) ==
  LET q == FindById(queryId)
      i == FindTab(s.queryTabs, s.activeTabId)
      isRenamed == i # 0 /\ s.queryTabs[i].renamed
  IN IF q = 0 THEN s
     ELSE [s EXCEPT !.queryTabs =
                      [k \in DOMAIN @ |->
                         IF @[k].id = s.activeTabId
                         THEN [@[k] EXCEPT !.name = nameAfterQueryChange(
                                                      isRenamed, @, predefinedQueries[q].name),
                                           !.queryId = queryId,
                                           !.query = predefinedQueries[q].query,
                                           !.renamed = isRenamed]
                         ELSE @[k]],
                    !.tabsNew = TRUE,
                    !.replaced = @ \cup {s.activeTabId},
                    !.currentQueryId = queryId,
                    !.queryText = predefinedQueries[q].query,
                    !.customError = NoError,
                    !.queryModified = TRUE]

\* SQLEditor: handleEditorChange(value)
handleEditorChange(s, value) ==
  IF value # s.edQuery THEN [s EXCEPT !.edQuery = value] ELSE s

handleClearResults(s, confirmClear) ==
  LET a == IF s.isFullScreen THEN [s EXCEPT !.isFullScreen = FALSE] ELSE s
  IN IF ~confirmClear THEN a
     ELSE clearResults([a EXCEPT !.outputTabs = <<>>, !.activeOutputTabId = Null,
                                 !.tabResults = EmptyMap, !.tabTypes = EmptyMap])

sourceReadyMut(tabs, payloads, sourceTabId) == FindTab(tabs, sourceTabId) # 0

\* sourceTab && tabResults[sourceTabId]: the source tab exists and has a payload
sourceReady(tabs, payloads, sourceTabId) ==
  FindTab(tabs, sourceTabId) # 0 /\ sourceTabId \in DOMAIN payloads

\* {...prevResults, [id]: prevResults[sourceTabId]}; a key that holds undefined
\* reads as a missing key
copyPayload(payloads, id, sourceTabId) ==
  IF sourceTabId \in DOMAIN payloads THEN Put(payloads, id, payloads[sourceTabId])
  ELSE payloads

createVisualizationTab(s, sourceTabId, clock) ==
  LET i == FindTab(s.outputTabs, sourceTabId)
  IN IF ~sourceReady(s.outputTabs, s.tabResults, sourceTabId) THEN s
     ELSE LET visualizationTab ==
                [ id |-> NewId(s), name |-> s.outputTabs[i].name \o <<SP, "Visualization">>,
                  queryId |-> s.outputTabs[i].queryId,
                  queryTabId |-> s.outputTabs[i].queryTabId,
                  sourceTabId |-> sourceTabId,
                  timestamp |-> [kind |-> "date", t |-> clock] ]
          IN [s EXCEPT !.outputTabs = Append(@, visualizationTab),
                       !.activeOutputTabId = visualizationTab.id,
                       !.tabTypes = Put(@, visualizationTab.id, "visualization"),
                       !.tabResults = copyPayload(@, visualizationTab.id, sourceTabId),
                       !.nextId = @ + 1, !.now = clock]

OutputTabNameMut(tabName) == <<"Output">>

\* const outputTabName = `${currentTab.name} Output`
OutputTabName(tabName) == tabName \o <<SP, "Output">>

handleExecuteQuery(s, query, clock) ==
  LET a == [s EXCEPT !.customError = NoError, !.queryModified = FALSE]
      m == FindByText(query)
      i == FindTab(s.queryTabs, s.activeTabId)
  IN IF m = 0 THEN [a EXCEPT !.customError = NoMatchError]
     ELSE IF i = 0 THEN a     \* currentTab.name throws a TypeError
     ELSE LET newOutputTab ==
                [ id |-> NewId(s), name |-> OutputTabName(s.queryTabs[i].name),
                  queryId |-> predefinedQueries[m].id, queryTabId |-> s.activeTabId,
                  sourceTabId |-> Null,
                  timestamp |-> [kind |-> "date", t |-> clock] ]
              b == [a EXCEPT !.outputTabs = Append(@, newOutputTab),
                             !.activeOutputTabId = newOutputTab.id,
                             !.tabTypes = Put(@, newOutputTab.id, "results"),
                             !.currentQueryId = predefinedQueries[m].id,
                             !.nextId = @ + 1, !.now = clock]
          IN executeQuery(b, [ kind |-> "execute", tabId |-> newOutputTab.id,
                               query |-> query, queryId |-> predefinedQueries[m].id,
                               executionTime |-> s.executionTime,
                               name |-> <<>>, editorTabId |-> Null ])

handleHistorySelectMut(s, historyItem, shouldExecute) ==
  [s EXCEPT !.customError = HistoryError, !.activePanel = "editor-panel"]

handleHistorySelect(s, historyItem, shouldExecute) ==
  LET a == [s EXCEPT !.customError = NoError]
      m == FindById(historyItem.queryId)
  IN IF m = 0 THEN [a EXCEPT !.customError = HistoryError]
     ELSE LET newTab == [ id |-> NewId(s), name |-> predefinedQueries[m].name,
                          queryId |-> historyItem.queryId,
                          query |-> historyItem.query, renamed |-> FALSE ]
              b == [a EXCEPT !.queryTabs = Append(@, newTab), !.tabsNew = TRUE,
                             !.activeTabId = newTab.id,
                             !.activePanel = "editor-panel",
                             !.nextId = @ + 1]
          IN IF ~shouldExecute THEN b
             ELSE executeQuery([b EXCEPT !.nextId = @ + 1],
                               [ kind |-> "history", tabId |-> NewId2(s),
                                 query |-> historyItem.query,
                                 queryId |-> historyItem.queryId,
                                 executionTime |-> s.executionTime,
                                 name |-> predefinedQueries[m].name,
                                 editorTabId |-> newTab.id ])

\* customSQL is <<>> when the explorer passes none
handleTableClick(s, tableName, customSQL) ==
  LET newQuery == IF customSQL # <<>> THEN customSQL ELSE SelectSQL(tableName)
      m == FindByText(newQuery)
      newTab == [ id |-> NewId(s), name |-> <<"SELECT", SP, tableName>>,
                  queryId |-> IF m # 0 THEN predefinedQueries[m].id ELSE "",
                  query |-> newQuery, renamed |-> FALSE ]
  IN [s EXCEPT !.queryTabs = Append(@, newTab), !.tabsNew = TRUE,
               !.activeTabId = newTab.id, !.nextId = @ + 1]

toggleLayoutDirectionMut(s) == [s EXCEPT !.isFullScreen = FALSE]

toggleLayoutDirection(s) ==
  [s EXCEPT !.isFullScreen = FALSE,
            !.layoutDirection = IF @ = "vertical" THEN "horizontal" ELSE "vertical"]

toggleFullScreen(s) == [s EXCEPT !.isFullScreen = ~@]

toggleOutputMode(s) ==
  LET a == toggleLayoutDirection([s EXCEPT !.isFullScreen = FALSE])
  IN IF s.layoutDirection = "vertical" /\ s.results # NoRows /\ ~s.loading
     THEN [a EXCEPT !.activePanel = "results-panel"]
     ELSE a

LaterMut(x, y) == x.kind = y.kind /\ x.t < y.t

\* latest.timestamp > current.timestamp: two Dates by time, two ISO strings by
\* text, a Date and a string never (the string converts to NaN)
Later(x, y) == x.kind = y.kind /\ x.t > y.t

\* remainingTabs.reduce((latest, current) =>
\*   latest.timestamp > current.timestamp ? latest : current)
RECURSIVE MostRecent(_, _)
MostRecent(latest, rest) ==
  IF rest = <<>> THEN latest
  ELSE MostRecent(IF Later(latest.timestamp, Head(rest).timestamp)
                  THEN latest ELSE Head(rest),
                  Tail(rest))

activateAfterCloseMut(a, remainingTabs) == a

\* if (remainingTabs.length > 0) ... else { setActiveOutputTabId(null); clearResults(); }
activateAfterClose(a, remainingTabs) ==
  IF remainingTabs # <<>>
  THEN [a EXCEPT !.activeOutputTabId =
                   MostRecent(Head(remainingTabs), Tail(remainingTabs)).id]
  ELSE clearResults([a EXCEPT !.activeOutputTabId = Null])

closesActiveMut(tabId, activeId) == TRUE

\* if (tabId === activeOutputTabId)
closesActive(tabId, activeId) == tabId = activeId

closeOutputTab(s, tabId, confirmClose) ==
  IF ~confirmClose THEN s
  ELSE LET remainingTabs == Without(s.outputTabs, tabId)
           a == [s EXCEPT !.outputTabs = remainingTabs,
                          !.tabResults = Remove(@, tabId),
                          !.tabTypes = Remove(@, tabId)]
       IN IF ~closesActive(tabId, s.activeOutputTabId) THEN a
          ELSE activateAfterClose(a, remainingTabs)

needsExecutionMut(payloads, tabId, q) == q # 0

\* !tabResults[tabId] && outputTab.queryId, and the query is found in the catalog
needsExecution(payloads, tabId, q) == tabId \notin DOMAIN payloads /\ q # 0

handleTabClick(s, tabId) ==
  IF tabId = "editor-panel" \/ tabId = "results-panel"
  THEN [s EXCEPT !.activePanel = tabId]
  ELSE LET i == FindTab(s.outputTabs, tabId)
       IN IF i # 0
          THEN LET a == [s EXCEPT !.activePanel = "results-panel",
                                  !.activeOutputTabId = tabId]
                   q == FindById(s.outputTabs[i].queryId)
               IN IF needsExecution(s.tabResults, tabId, q)
                  THEN executeQuery(a, [ kind |-> "select", tabId |-> tabId,
                                         query |-> predefinedQueries[q].query,
                                         queryId |-> s.outputTabs[i].queryId,
                                         executionTime |-> NoTime,
                                         name |-> <<>>, editorTabId |-> Null ])
                  ELSE a
          ELSE [s EXCEPT !.activePanel = "editor-panel", !.activeTabId = tabId]

\* useSQLQuery: the adapter finishes request k after `elapsed` and calls onComplete
\* with the rows of the request's query
onQueryComplete(s, req, clock) ==
  LET payload == [data |-> req.queryId, executionTime |-> req.executionTime]
  IN IF req.kind = "history"
     THEN LET newOutputTab ==
                [ id |-> req.tabId, name |-> req.name \o <<SP, "Results">>,
                  queryId |-> req.queryId, queryTabId |-> Null,
                  sourceTabId |-> req.editorTabId,
                  timestamp |-> [kind |-> "iso", t |-> clock] ]
          IN [s EXCEPT !.tabResults = Put(@, req.tabId, payload),
                       !.outputTabs = Append(@, newOutputTab),
                       !.activeOutputTabId = req.tabId,
                       !.activePanel = "results-panel",
                       !.now = clock]
     ELSE [s EXCEPT !.tabResults = Put(@, req.tabId, payload)]

adapterComplete(s, k, elapsed, clock) ==
  LET req == s.inflight[k]
      a == [s EXCEPT !.inflight = SubSeq(@, 1, k - 1) \o SubSeq(@, k + 1, Len(@)),
                     !.results = req.queryId,
                     !.executionTime = elapsed,
                     !.loading = FALSE,
                     !.queryHistory = @ \cup {[query |-> req.query, queryId |-> req.queryId]}]
  IN onQueryComplete(a, req, clock)

\* the callback of the oldest pending setTimeout(..., 0)
timerFires(s) ==
  LET a == [s EXCEPT !.timers = Tail(@)]
  IN CASE Head(s.timers) = "tab" -> [a EXCEPT !.isUpdatingTab = FALSE]
       [] Head(s.timers) = "query" -> [a EXCEPT !.isUpdatingQuery = FALSE]
       [] OTHER -> [a EXCEPT !.edUpdating = FALSE]


\* ---------------------------------------------------------- initial state
\* useState initial values (App lines 1843-1874, 1987, 2000, 2285-2291)
\* --------------------------------------------------------- the split pane
VerticalFloor == 200
HorizontalFloor == 300
InitialSplit == <<60, 1>>

\* pointer coordinates and container sizes, in pixels
Positions == {0, 200, 400}
ContainerSizes == {300, 1000}

RECURSIVE Gcd(_, _)
Gcd(a, b) == IF b = 0 THEN a ELSE Gcd(b, a % b)
Abs(n) == IF n < 0 THEN -n ELSE n

\* the number n/d, d > 0, in lowest terms
Frac(n, d) ==
  By(Gcd(Abs(n), d), LAMBDA g : IF g = 0 THEN <<0, 1>> ELSE <<n \div g, d \div g>>)

FracLeq(x, y) == x[1] * y[2] <= y[1] * x[2]

Layout ==
  [ splitSize |-> splitSize, isDragging |-> isDragging, startPos |-> startPos,
    startSize |-> startSize, listeners |-> listeners ]

\* e.clientY or e.clientX is pos; the handler pair closes over the render's
\* layoutDirection
handleResizeStart(l, direction, first, pos) ==
  [l EXCEPT !.isDragging = TRUE, !.startPos = pos, !.startSize = l.splitSize,
            !.listeners = @ \cup {[first |-> first, direction |-> direction]}]

floorPixels(direction) ==
  IF direction = "vertical" THEN VerticalFloor ELSE HorizontalFloor

\* the branches of handleResize on newSizeInPixels = n / d pixels
clampedSplit(n, d, minSizeInPixels, maxSizeInPixels, containerSize) ==
  IF n < minSizeInPixels * d THEN Frac(minSizeInPixels * 100, containerSize)
  ELSE IF n > maxSizeInPixels * d THEN Frac(maxSizeInPixels * 100, containerSize)
  ELSE Frac(n * 100, d * containerSize)

\* the attached handler h moves to pos in a container of containerSize pixels;
\* currentSizeInPixels = containerSize * startSize / 100
handleResize(l, h, pos, containerSize) ==
  IF ~l.isDragging THEN l
  ELSE [l EXCEPT !.splitSize =
          clampedSplit(containerSize * l.startSize[1]
                         + (pos - l.startPos) * l.startSize[2] * 100,
                       l.startSize[2] * 100,
                       floorPixels(h.direction),
                       containerSize - floorPixels(h.direction),
                       containerSize)]

\* removeEventListener with the functions of the render that made h
handleResizeEnd(l, h) ==
  [l EXCEPT !.isDragging = FALSE, !.listeners = @ \ {h}]

\* the cleanup of useEffect(..., []): removeEventListener with the functions of
\* the mount render
cleanup(ls) == {h \in ls : ~h.first}

Constructed ==
  [ queryTabs |-> << [ id |-> "1", name |-> <<"New", SP, "Query">>,
                       queryId |-> predefinedQueries[1].id,
                       query |-> predefinedQueries[1].query, renamed |-> FALSE ] >>,
    activeTabId |-> "1",
    currentQueryId |-> predefinedQueries[1].id,
    queryText |-> predefinedQueries[1].query,
    editingTabId |-> Null, newTabName |-> <<>>,
    outputTabs |-> <<>>, activeOutputTabId |-> Null,
    tabResults |-> EmptyMap, tabTypes |-> EmptyMap,
    customError |-> NoError, queryModified |-> FALSE,
    activePanel |-> "editor-panel", layoutDirection |-> "vertical",
    isFullScreen |-> FALSE,
    isUpdatingQuery |-> FALSE, isUpdatingTab |-> FALSE, timers |-> <<>>,
    results |-> NoRows, loading |-> FALSE, executionTime |-> NoTime,
    queryHistory |-> {}, inflight |-> <<>>,
    edQuery |-> predefinedQueries[1].query,
    edPrevInitial |-> predefinedQueries[1].query, edUpdating |-> FALSE,
    nextId |-> 2, now |-> 0, crashed |-> FALSE,
    tabsNew |-> FALSE, replaced |-> {} ]

Init ==
  LET r == Mounted(Constructed)
  IN /\ queryTabs = r.queryTabs /\ activeTabId = r.activeTabId
     /\ currentQueryId = r.currentQueryId /\ queryText = r.queryText
     /\ editingTabId = r.editingTabId /\ newTabName = r.newTabName
     /\ outputTabs = r.outputTabs /\ activeOutputTabId = r.activeOutputTabId
     /\ tabResults = r.tabResults /\ tabTypes = r.tabTypes
     /\ customError = r.customError /\ queryModified = r.queryModified
     /\ activePanel = r.activePanel /\ layoutDirection = r.layoutDirection
     /\ isFullScreen = r.isFullScreen /\ isUpdatingQuery = r.isUpdatingQuery
     /\ isUpdatingTab = r.isUpdatingTab /\ timers = r.timers
     /\ results = r.results /\ loading = r.loading
     /\ executionTime = r.executionTime /\ queryHistory = r.queryHistory
     /\ inflight = r.inflight /\ edQuery = r.edQuery
     /\ edPrevInitial = r.edPrevInitial /\ edUpdating = r.edUpdating
     /\ nextId = r.nextId /\ now = r.now /\ crashed = r.crashed
     /\ splitSize = InitialSplit /\ isDragging = FALSE
     /\ startPos = 0 /\ startSize = <<0, 1>>
     /\ listeners = {} /\ firstRender = TRUE /\ mounted = TRUE

\* ----------------------------------------------------------------- actions
\* what the render shows, and the bounds of the model
EditorShown == ~isFullScreen
OutputBarShown == outputTabs # <<>>
RenameInputShown == EditorShown /\ editingTabId \in TabIds(queryTabs)
TimersSettled == Len(timers) <= MaxTimers
\* The rename input has the focus (handleTabDoubleClick focuses it): a click or a
\* key press anywhere else blurs it first, and the blur commits the rename.
UserCanAct == mounted /\ ~crashed /\ ~isDragging /\ TimersSettled /\ ~RenameInputShown
UserCanRename == mounted /\ ~crashed /\ ~isDragging /\ TimersSettled /\ RenameInputShown
PendingHistoryTabs == Cardinality({k \in DOMAIN inflight : inflight[k].kind = "history"})
RoomForEditorTab == Len(queryTabs) < MaxTabs /\ nextId <= MaxIds
RoomForOutputTabs(n, ids) == Len(outputTabs) + PendingHistoryTabs < n /\ nextId <= ids
RoomForOutputTab == RoomForOutputTabs(MaxOut, MaxIds)
RoomForExecution == Len(inflight) < MaxInflight
Clocks == {now, now + 1}

\* one task: the handler's updates, then renders and effects until stable
Task(r) ==
  \E v \in {Commit(Snap, r, 0)} :
    /\ Install(v)
    /\ firstRender' = (firstRender /\ ReactState(v) = ReactState(Snap))
    /\ listeners' = IF v.crashed THEN cleanup(listeners) ELSE listeners
    /\ UNCHANGED <<splitSize, isDragging, startPos, startSize, mounted>>

SelectEditorTab ==
  /\ UserCanAct /\ EditorShown
  /\ \E i \in DOMAIN queryTabs :
       Task(selectEditorTab(Snap, queryTabs[i].id))

\* a user event that the browser delivers before the pending setTimeout(0)
\* callbacks
EarlyUserCanAct ==
  /\ mounted /\ ~crashed /\ ~isDragging /\ ~RenameInputShown
  /\ Len(timers) <= MaxPending

SelectEditorTabEarly ==
  /\ EarlyUserCanAct /\ EditorShown
  /\ \E i \in DOMAIN queryTabs :
       Task(selectEditorTab(Snap, queryTabs[i].id))

CloseTabEarly ==
  /\ EarlyUserCanAct /\ EditorShown
  /\ \E i \in DOMAIN queryTabs :
       Task(closeTab(Snap, queryTabs[i].id))

AddNewTab ==
  /\ UserCanAct /\ EditorShown /\ RoomForEditorTab
  /\ Task(addNewTab(Snap))

CloseTab ==
  /\ UserCanAct /\ EditorShown
  /\ \E i \in DOMAIN queryTabs :
       Task(closeTab(Snap, queryTabs[i].id))

\* the two clicks of a double click have made the tab active
HandleTabDoubleClick ==
  /\ UserCanAct /\ EditorShown
  /\ \E i \in DOMAIN queryTabs :
       /\ queryTabs[i].id = activeTabId
       /\ editingTabId # queryTabs[i].id
       /\ Task(handleTabDoubleClick(Snap, queryTabs[i].id, queryTabs[i].name))

SetNewTabName ==
  /\ UserCanRename
  /\ \E d \in Drafts : d # newTabName /\ Task(setNewTabName(Snap, d))

\* Enter, submit or blur
HandleTabRename ==
  /\ UserCanRename
  /\ Task(handleTabRename(Snap))

RenameEscape ==
  /\ UserCanRename
  /\ Task(renameEscape(Snap))

HandleQueryChange ==
  /\ UserCanAct /\ EditorShown
  /\ \E q \in CatalogIds : Task(handleQueryChange(Snap, q))

\* the user types in the editor widget
HandleEditorChange ==
  /\ UserCanAct /\ EditorShown
  /\ \E t \in TypedTexts :
       t # edQuery /\ Task(handleEditorChange(Snap, t))

CanExecute(text) ==
  FindByText(text) = 0 \/ (RoomForOutputTab /\ RoomForExecution)

\* <RunButton onClick={() => handleExecuteQuery(queryText)}>
RunButton ==
  /\ UserCanAct /\ CanExecute(queryText)
  /\ \E clock \in Clocks :
       Task(handleExecuteQuery(Snap, queryText, clock))

\* SQLEditor: handleKeyDown, Ctrl+Enter or Cmd+Enter: onExecuteQuery(query)
CtrlEnter ==
  /\ UserCanAct /\ EditorShown /\ CanExecute(edQuery)
  /\ \E clock \in Clocks :
       Task(handleExecuteQuery(Snap, edQuery, clock))

VisualizationButtonShown ==
  /\ activeOutputTabId # Null
  /\ activeOutputTabId \in DOMAIN tabResults
  /\ ~loading
  /\ (activeOutputTabId \in DOMAIN tabTypes => tabTypes[activeOutputTabId] # "visualization")

CreateVisualizationTab ==
  /\ UserCanAct /\ VisualizationButtonShown /\ RoomForOutputTab
  /\ \E clock \in Clocks :
       Task(createVisualizationTab(Snap, activeOutputTabId, clock))

HandleClearResults ==
  /\ UserCanAct /\ OutputBarShown
  /\ \E confirmClear \in BOOLEAN :
       Task(handleClearResults(Snap, confirmClear))

CloseOutputTab ==
  /\ UserCanAct /\ OutputBarShown
  /\ \E i \in DOMAIN outputTabs, confirmClose \in BOOLEAN :
       Task(closeOutputTab(Snap, outputTabs[i].id, confirmClose))

\* the output tab bar: onClick={() => handleTabClick(tab.id)}
HandleTabClick ==
  /\ UserCanAct /\ OutputBarShown
  /\ \E i \in DOMAIN outputTabs :
       /\ outputTabs[i].id \in DOMAIN tabResults \/ RoomForExecution
       /\ Task(handleTabClick(Snap, outputTabs[i].id))

HandleHistorySelect ==
  /\ UserCanAct /\ RoomForEditorTab
  /\ \E h \in queryHistory, shouldExecute \in BOOLEAN :
       /\ shouldExecute => /\ nextId + 1 <= MaxIds
                           /\ Len(outputTabs) + PendingHistoryTabs < MaxOut
                           /\ RoomForExecution
       /\ Task(handleHistorySelect(Snap, h, shouldExecute))

\* a history item of a query the catalog does not hold: the item the else branch
\* of handleHistorySelect is written for
StaleHistory == {[query |-> Q1Text, queryId |-> "q0"]}

HandleHistorySelectStale ==
  /\ UserCanAct
  /\ \E h \in StaleHistory, shouldExecute \in BOOLEAN :
       Task(handleHistorySelect(Snap, h, shouldExecute))

\* the Run button and the history's "run again", with room for MaxOutClose output
\* tabs
RunButtonMore ==
  /\ UserCanAct /\ FindByText(queryText) # 0
  /\ RoomForOutputTabs(MaxOutClose, MaxIdsClose) /\ RoomForExecution
  /\ \E clock \in Clocks :
       Task(handleExecuteQuery(Snap, queryText, clock))

HistoryRunMore ==
  /\ UserCanAct /\ Len(queryTabs) < MaxTabs
  /\ RoomForOutputTabs(MaxOutClose, MaxIdsClose - 1) /\ RoomForExecution
  /\ \E h \in queryHistory :
       Task(handleHistorySelect(Snap, h, TRUE))

CloseOutputTabConfirmed ==
  /\ UserCanAct /\ OutputBarShown
  /\ \E i \in DOMAIN outputTabs :
       Task(closeOutputTab(Snap, outputTabs[i].id, TRUE))

\* DatabaseExplorer: double click or "select" (no custom SQL), or "count"
HandleTableClick ==
  /\ UserCanAct /\ RoomForEditorTab
  /\ \E t \in Tables, custom \in BOOLEAN :
       Task(handleTableClick(Snap, t, IF custom THEN CountSQL(t) ELSE <<>>))

\* handleTabClick called with an id that no rendered control passes: the id of no
\* panel and of no output tab
HandleTabClickUnknownId ==
  /\ UserCanAct
  /\ \E n \in 1..MaxIds :
       /\ ToString(n) \notin TabIds(outputTabs)
       /\ Task(handleTabClick(Snap, ToString(n)))

ToggleFullScreen ==
  /\ UserCanAct /\ OutputBarShown
  /\ Task(toggleFullScreen(Snap))

ToggleOutputMode ==
  /\ UserCanAct /\ OutputBarShown
  /\ Task(toggleOutputMode(Snap))

\* the handle is rendered between the two panes
ResizeHandleShown ==
  /\ ~isFullScreen /\ outputTabs # <<>>
  /\ activeOutputTabId \in DOMAIN tabResults

InstallLayout(l) ==
  /\ splitSize' = l.splitSize /\ isDragging' = l.isDragging
  /\ startPos' = l.startPos /\ startSize' = l.startSize
  /\ listeners' = l.listeners

AppUnchanged ==
  UNCHANGED << queryTabs, activeTabId, currentQueryId, queryText, editingTabId,
               newTabName, outputTabs, activeOutputTabId, tabResults, tabTypes,
               customError, queryModified, activePanel, layoutDirection,
               isFullScreen, isUpdatingQuery, isUpdatingTab, timers, results,
               loading, executionTime, queryHistory, inflight, edQuery,
               edPrevInitial, edUpdating, nextId, now, crashed >>

\* onMouseDown={handleResizeStart}
HandleResizeStart ==
  /\ UserCanAct /\ ResizeHandleShown
  /\ \E pos \in Positions :
       InstallLayout(handleResizeStart(Layout, layoutDirection, firstRender, pos))
  /\ UNCHANGED <<firstRender, mounted>> /\ AppUnchanged

\* document mousemove: every attached handleResize runs; setSplitSize renders again
\* when the value is new
HandleResize ==
  /\ mounted /\ ~crashed /\ ResizeHandleShown
  /\ \E h \in listeners, pos \in Positions, containerSize \in ContainerSizes :
       \E l \in {handleResize(Layout, h, pos, containerSize)} :
         /\ InstallLayout(l)
         /\ firstRender' = (firstRender /\ l.splitSize = splitSize)
  /\ UNCHANGED mounted /\ AppUnchanged

\* document mouseup
HandleResizeEnd ==
  /\ mounted /\ ~crashed
  /\ \E h \in listeners : InstallLayout(handleResizeEnd(Layout, h))
  /\ UNCHANGED <<firstRender, mounted>> /\ AppUnchanged

\* the host unmounts App: the effect cleanups run
Teardown ==
  /\ mounted /\ ~crashed
  /\ mounted' = FALSE
  /\ listeners' = cleanup(listeners)
  /\ UNCHANGED <<splitSize, isDragging, startPos, startSize, firstRender>>
  /\ AppUnchanged

\* A completion changes no dependency of an effect that reads the guard flags, so
\* it commutes with the pending timer callbacks: it is taken after them.
AdapterComplete ==
  /\ mounted /\ ~crashed /\ timers = <<>>
  /\ \E k \in DOMAIN inflight, elapsed \in ExecTimes, clock \in Clocks :
       Task(adapterComplete(Snap, k, elapsed, clock))

TimerFires ==
  /\ mounted /\ ~crashed /\ timers # <<>>
  /\ Task(timerFires(Snap))

Next ==
  \/ HandleResizeStart \/ HandleResize \/ HandleResizeEnd \/ Teardown
  \/ SelectEditorTab \/ AddNewTab \/ CloseTab
  \/ HandleTabDoubleClick \/ SetNewTabName \/ HandleTabRename \/ RenameEscape
  \/ HandleQueryChange \/ HandleEditorChange \/ RunButton \/ CtrlEnter
  \/ CreateVisualizationTab \/ HandleClearResults \/ CloseOutputTab \/ HandleTabClick
  \/ HandleHistorySelect \/ HandleTableClick
  \/ ToggleFullScreen \/ ToggleOutputMode
  \/ AdapterComplete \/ TimerFires

Spec == Init /\ [][Next]_vars

\* the editor-tab lifecycle: the operations that create, select, rename and close
\* editor tabs, with the executions that fill the history
NextTabs ==
  \/ SelectEditorTab \/ AddNewTab \/ CloseTab
  \/ HandleTabDoubleClick \/ HandleTabRename \/ RenameEscape
  \/ HandleTableClick \/ HandleHistorySelect \/ HandleTabClick
  \/ RunButton \/ AdapterComplete \/ TimerFires

SpecTabs == Init /\ [][NextTabs]_vars

\* the same operations, with handleTabClick taking any id
NextAnyId ==
  \/ SelectEditorTab \/ AddNewTab \/ CloseTab \/ HandleTableClick
  \/ HandleTabClick \/ HandleTabClickUnknownId
  \/ RunButton \/ AdapterComplete \/ TimerFires

SpecAnyId == Init /\ [][NextAnyId]_vars

\* the output-tab lifecycle
NextOutput ==
  \/ RunButton \/ HandleHistorySelect \/ CreateVisualizationTab
  \/ CloseOutputTab \/ HandleClearResults \/ HandleTabClick
  \/ ToggleFullScreen \/ ToggleOutputMode
  \/ AdapterComplete \/ TimerFires

SpecOutput == Init /\ [][NextOutput]_vars

\* renaming editor tabs among the operations that change a tab's text
NextRename ==
  \/ SelectEditorTab
  \/ HandleTabDoubleClick \/ SetNewTabName \/ HandleTabRename \/ RenameEscape
  \/ HandleQueryChange \/ HandleEditorChange \/ HandleTableClick
  \/ TimerFires

SpecRename == Init /\ [][NextRename]_vars

\* the two sync effects and their guard flags, with user events that arrive
\* before the flags are cleared
NextSync ==
  \/ SelectEditorTabEarly \/ CloseTabEarly \/ AddNewTab \/ HandleTableClick
  \/ HandleQueryChange \/ TimerFires

SpecSync == Init /\ [][NextSync]_vars

\* dragging the split pane
NextLayout ==
  \/ RunButton \/ AdapterComplete \/ TimerFires \/ ToggleOutputMode
  \/ HandleResizeStart \/ HandleResize \/ HandleResizeEnd \/ Teardown

SpecLayout == Init /\ [][NextLayout]_vars

\* closing output tabs when several remain
NextClose ==
  \/ RunButtonMore \/ HistoryRunMore \/ CloseOutputTabConfirmed \/ HandleTabClick
  \/ AdapterComplete \/ TimerFires

SpecClose == Init /\ [][NextClose]_vars

\* loading history items, those of a query that left the catalog among them
NextHistory ==
  \/ RunButton \/ HandleHistorySelect \/ HandleHistorySelectStale
  \/ HandleTabClick \/ HandleTableClick
  \/ AdapterComplete \/ TimerFires

SpecHistory == Init /\ [][NextHistory]_vars

\* executing what the editor holds
NextExecute ==
  \/ HandleQueryChange \/ HandleEditorChange \/ RunButton \/ CtrlEnter
  \/ HandleTableClick
  \/ AdapterComplete \/ TimerFires

SpecExecute == Init /\ [][NextExecute]_vars

\* no task needs more render passes than the model allows
RenderPassesBounded == customError # "overflow"

\* ------------------------------------------------------------------ claims
\* the outcome of one task that runs a handler in the current state
After(r) == Commit(Snap, r, 0)

\* what the Run button passes (queryText) and what Ctrl+Enter passes (the text of
\* the editor widget)
Executable == {queryText, edQuery}

\* C1: the editor-tab list is never empty, and closeTab on the only remaining
\* tab leaves the tab list and activeTabId as they are.
C1_EditorTabsNeverEmpty ==
  /\ queryTabs # <<>>
  /\ Len(queryTabs) = 1 =>
       LET r == After(closeTab(Snap, queryTabs[1].id))
       IN r.queryTabs = queryTabs /\ r.activeTabId = activeTabId

\* tabs were added and closed until one is left, which is not the first one
C1_Witness == Len(queryTabs) = 1 /\ queryTabs[1].id # "1" /\ ~crashed

\* C2: activeTabId is the id of an existing editor tab, whatever id
\* handleTabClick is given.
C2_ActiveTabExists == activeTabId \in TabIds(queryTabs)

\* C3: when there is no output tab, activeOutputTabId is null.
C3_NoOutputTabNoActive == outputTabs = <<>> => activeOutputTabId = Null

\* every output tab is gone and a completion has arrived after its tab was closed
C3_Witness ==
  /\ outputTabs = <<>> /\ activeOutputTabId = Null
  /\ DOMAIN tabResults # {} /\ ~crashed

\* C4: executing a text that matches no catalog entry sets the error message and
\* changes nothing else: tabs, active ids, payloads, kinds, panel, queryModified,
\* and no execution is requested.
C4_NoMatchChangesOnlyError ==
  \A t \in Executable :
    (UserCanAct /\ FindByText(t) = 0) =>
      LET r == After(handleExecuteQuery(Snap, t, now))
      IN /\ r.customError = NoMatchError
         /\ r.queryTabs = queryTabs /\ r.activeTabId = activeTabId
         /\ r.outputTabs = outputTabs /\ r.activeOutputTabId = activeOutputTabId
         /\ r.tabResults = tabResults /\ r.tabTypes = tabTypes
         /\ r.activePanel = activePanel
         /\ r.queryModified = queryModified
         /\ r.inflight = inflight /\ r.loading = loading

\* C5: once the user has typed a text that matches no catalog entry, the Run
\* button and Ctrl+Enter both give the no-match message and no new output tab.
C5_ExecutesTypedText ==
  (UserCanAct /\ EditorShown /\ FindByText(edQuery) = 0) =>
    \A t \in Executable :
      LET r == After(handleExecuteQuery(Snap, t, now))
      IN r.customError = NoMatchError /\ Len(r.outputTabs) = Len(outputTabs)

\* C6: executing a text that matches a catalog entry appends exactly one output
\* tab, named "<active editor tab name> Output", with the entry's id and the kind
\* "results"; it becomes the active output tab, and the output tabs, payloads and
\* kinds that existed are unchanged.
C6_MatchAppendsOneOutputTab ==
  \A t \in Executable, clock \in Clocks :
    (UserCanAct /\ FindByText(t) # 0) =>
      LET r == After(handleExecuteQuery(Snap, t, clock))
          n == Len(outputTabs)
          added == r.outputTabs[n + 1]
      IN /\ Len(r.outputTabs) = n + 1
         /\ SubSeq(r.outputTabs, 1, n) = outputTabs
         /\ added.id \notin TabIds(outputTabs)
         /\ added.name = ActiveTabOf(Snap).name \o <<SP, "Output">>
         /\ added.queryId = predefinedQueries[FindByText(t)].id
         /\ r.activeOutputTabId = added.id
         /\ DOMAIN r.tabTypes = DOMAIN tabTypes \cup {added.id}
         /\ r.tabTypes[added.id] = "results"
         /\ \A k \in DOMAIN tabTypes : r.tabTypes[k] = tabTypes[k]
         /\ r.tabResults = tabResults

\* a second execution has added its tab after the first one
C6_Witness ==
  /\ Len(outputTabs) = 2 /\ ~crashed
  /\ activeOutputTabId = outputTabs[2].id
  /\ outputTabs[2].id \in DOMAIN tabTypes /\ tabTypes[outputTabs[2].id] = "results"
  /\ outputTabs[2].name = ActiveTabOf(Snap).name \o <<SP, "Output">>
  /\ outputTabs[2].queryId \in CatalogIds

\* C7: a successful execute makes "results-panel" the active panel.
C7_ExecuteShowsResultsPanel ==
  \A t \in Executable, clock \in Clocks :
    (UserCanAct /\ FindByText(t) # 0) =>
      After(handleExecuteQuery(Snap, t, clock)).activePanel = "results-panel"

\* C8: every key of the payload map is the id of an existing output tab, also
\* when a completion arrives after its tab was closed.
C8_PayloadKeysAreOutputTabs == DOMAIN tabResults \subseteq TabIds(outputTabs)

\* C9: every output tab has exactly one kind, "results" or "visualization", and
\* the kind map has no entry for an id that is not an output tab.
C9_KindPerOutputTab ==
  /\ DOMAIN tabTypes = TabIds(outputTabs)
  /\ \A k \in DOMAIN tabTypes : tabTypes[k] \in {"results", "visualization"}

\* C10: when the user declines the confirmation of closeOutputTab or of clearing
\* all output tabs, the output tabs, the active output tab, the payloads, the
\* kinds and isFullScreen stay as they are.
C10_DeclinedConfirmChangesNothing ==
  (UserCanAct /\ OutputBarShown) =>
    \A r \in {After(handleClearResults(Snap, FALSE))}
             \cup {After(closeOutputTab(Snap, outputTabs[i].id, FALSE)) :
                     i \in DOMAIN outputTabs} :
      /\ r.outputTabs = outputTabs /\ r.activeOutputTabId = activeOutputTabId
      /\ r.tabResults = tabResults /\ r.tabTypes = tabTypes
      /\ r.isFullScreen = isFullScreen

\* C11: a confirmed closeOutputTab of the active output tab makes the remaining
\* tab with the greatest creation time the active one, whatever path created
\* it; when none remains activeOutputTabId is null and the displayed results are
\* cleared.
C11_CloseActivatesMostRecent ==
  \A i \in DOMAIN outputTabs :
    (UserCanAct /\ outputTabs[i].id = activeOutputTabId) =>
      LET r == After(closeOutputTab(Snap, outputTabs[i].id, TRUE))
          rest == Without(outputTabs, outputTabs[i].id)
      IN /\ r.outputTabs = rest
         /\ IF rest = <<>>
            THEN r.activeOutputTabId = Null /\ r.results = NoRows
            ELSE \E k \in DOMAIN rest :
                   /\ r.activeOutputTabId = rest[k].id
                   /\ \A j \in DOMAIN rest : rest[k].timestamp.t >= rest[j].timestamp.t

\* the oldest of three output tabs is active, and of the two that would remain
\* one was made by the Run button and a later one by the history
C11_Witness ==
  /\ UserCanAct /\ Len(outputTabs) = 3
  /\ activeOutputTabId = outputTabs[1].id
  /\ outputTabs[2].timestamp.kind # outputTabs[3].timestamp.kind
  /\ outputTabs[2].timestamp.t < outputTabs[3].timestamp.t

\* C12: in every settled state (no flag-clearing timer pending) every editor tab
\* that was not renamed by hand has the name derived from its query text.
C12_UnrenamedNameIsDerived ==
  timers = <<>> =>
    \A i \in DOMAIN queryTabs :
      ~queryTabs[i].renamed => queryTabs[i].name = DeriveName(queryTabs[i].query)

\* C13: a tab with renamed=true keeps its renamed flag, and keeps its name in
\* every step but a committed rename of that same tab.
C13_RenamedNameIsSticky ==
  [][\A i \in DOMAIN queryTabs, j \in DOMAIN queryTabs' :
       (queryTabs[i].renamed /\ queryTabs'[j].id = queryTabs[i].id) =>
         /\ queryTabs'[j].renamed
         /\ \/ queryTabs'[j].name = queryTabs[i].name
            \/ /\ editingTabId = queryTabs[i].id /\ editingTabId' = Null
               /\ queryTabs'[j].name = Trim(newTabName)]_vars

\* a tab renamed by hand has since been given another catalog query and is no
\* longer the active tab
C13_Witness ==
  \E i \in DOMAIN queryTabs :
    /\ queryTabs[i].renamed /\ queryTabs[i].name = <<"Mine">>
    /\ queryTabs[i].queryId = predefinedQueries[2].id
    /\ queryTabs[i].query = predefinedQueries[2].query
    /\ queryTabs[i].id = "1" /\ activeTabId # "1" /\ timers = <<>>

\* C14: a rename in progress ends by a commit (blur or Enter) or by Escape. A
\* commit with a draft that is not blank names the tab by the trimmed draft and
\* sets renamed; a commit with a blank draft, and Escape, leave name and renamed
\* as they were. Each clears editingTabId and the draft and modifies no other tab.
C14_RenameEnds ==
  UserCanRename =>
    LET i == FindTab(queryTabs, editingTabId)
        c == After(handleTabRename(Snap))
        e == After(renameEscape(Snap))
        Others(r) == /\ Len(r.queryTabs) = Len(queryTabs)
                     /\ \A k \in DOMAIN queryTabs : k # i => r.queryTabs[k] = queryTabs[k]
        Cleared(r) == r.editingTabId = Null /\ r.newTabName = <<>>
        Kept(r) == /\ r.queryTabs[i].name = queryTabs[i].name
                   /\ r.queryTabs[i].renamed = queryTabs[i].renamed
    IN /\ Cleared(c) /\ Others(c) /\ Cleared(e) /\ Others(e) /\ Kept(e)
       /\ IF Trim(newTabName) # <<>>
          THEN c.queryTabs[i].name = Trim(newTabName) /\ c.queryTabs[i].renamed
          ELSE Kept(c)

\* a commit has named a tab by the trimmed draft, and a rename of another tab
\* with a blank draft is in progress
C14_Witness ==
  /\ UserCanRename /\ Trim(newTabName) = <<>>
  /\ \E k \in DOMAIN queryTabs :
       /\ queryTabs[k].id # editingTabId
       /\ queryTabs[k].renamed /\ queryTabs[k].name = <<"Mine">>

\* C15: isFullScreen holds only while there is a result set; when a confirmed
\* close or clear-all removes the result set, or full screen is toggled on with
\* no result set, isFullScreen is false once the task has ended.
C15_FullScreenNeedsResults ==
  /\ isFullScreen => results # NoRows
  /\ (UserCanAct /\ OutputBarShown) =>
       \A r \in {After(toggleFullScreen(Snap)), After(handleClearResults(Snap, TRUE))}
                \cup {After(closeOutputTab(Snap, outputTabs[i].id, TRUE)) :
                        i \in DOMAIN outputTabs} :
         r.results = NoRows => ~r.isFullScreen

\* full screen is on with results shown and one output tab, which can be closed
C15_Witness ==
  /\ UserCanAct /\ isFullScreen /\ results # NoRows
  /\ Len(outputTabs) = 1 /\ activeOutputTabId = outputTabs[1].id

\* C16: whatever the pointer positions and the container size, the split ratio
\* handleResize sets is within 0..100, at least floor/containerSize*100 and at
\* most (containerSize-floor)/containerSize*100, the floor being 200 px in the
\* vertical and 300 px in the horizontal orientation.
C16_SplitWithinFloors ==
  \A h \in listeners, pos \in Positions, containerSize \in ContainerSizes :
    (mounted /\ isDragging /\ ResizeHandleShown) =>
      LET r == handleResize(Layout, h, pos, containerSize).splitSize
          floor == floorPixels(layoutDirection)
      IN /\ FracLeq(<<0, 1>>, r) /\ FracLeq(r, <<100, 1>>)
         /\ FracLeq(<<floor * 100, containerSize>>, r)
         /\ FracLeq(r, <<(containerSize - floor) * 100, containerSize>>)

\* C17: a drag's document listeners are attached only during the gesture: the
\* drag-end detaches them, and so does a teardown during the drag.
C17_ListenersDetached == (~isDragging \/ ~mounted) => listeners = {}

\* C18: changing the active editor tab leaves the stored query text and queryId
\* of every editor tab as they are, also when the click arrives before the
\* guard flags isUpdatingTab and isUpdatingQuery have been cleared.
C18_SwitchNotEchoed ==
  \A i \in DOMAIN queryTabs :
    (EarlyUserCanAct /\ EditorShown) =>
      LET r == After(selectEditorTab(Snap, queryTabs[i].id))
      IN /\ Len(r.queryTabs) = Len(queryTabs)
         /\ \A k \in DOMAIN queryTabs :
              /\ r.queryTabs[k].query = queryTabs[k].query
              /\ r.queryTabs[k].queryId = queryTabs[k].queryId

\* C19: createVisualizationTab for a source id that names no output tab, or an
\* output tab whose payload is not stored yet, changes nothing: the output-tab
\* list, the payload map, the kind map and activeOutputTabId stay as they are.
C19_NoSourceNoVisualization ==
  \A n \in 1..(MaxIds + 1), clock \in Clocks :
    LET sourceId == ToString(n)
        h == createVisualizationTab(Snap, sourceId, clock)
        r == After(h)
    IN (~crashed /\ (sourceId \notin TabIds(outputTabs) \/ sourceId \notin DOMAIN tabResults)) =>
         /\ h.outputTabs = outputTabs
         /\ h = Snap
         /\ r.outputTabs = outputTabs
         /\ r.activeOutputTabId = activeOutputTabId
         /\ r.tabTypes = tabTypes
         /\ r.tabResults = tabResults

\* an output tab is still loading (no payload stored) next to one that has its
\* payload, and some id names no output tab at all
C19_Witness ==
  /\ ~crashed
  /\ \E i, j \in DOMAIN outputTabs :
       /\ outputTabs[i].id \notin DOMAIN tabResults
       /\ outputTabs[j].id \in DOMAIN tabResults
  /\ \E n \in 1..(MaxIds + 1) : ToString(n) \notin TabIds(outputTabs)

C22_StaleHistorySetsErrorOnly ==
  \A h \in StaleHistory, shouldExecute \in BOOLEAN :
    UserCanAct =>
      LET r == After(handleHistorySelect(Snap, h, shouldExecute))
      IN /\ r.customError = HistoryError
         /\ r.queryTabs = queryTabs /\ r.activeTabId = activeTabId
         /\ r.outputTabs = outputTabs /\ r.activeOutputTabId = activeOutputTabId
         /\ r.tabResults = tabResults /\ r.tabTypes = tabTypes
         /\ r.inflight = inflight /\ r.loading = loading
         /\ r.queryText = queryText /\ r.currentQueryId = currentQueryId
         /\ r.activePanel = activePanel /\ r.queryHistory = queryHistory
         /\ r.results = results /\ r.nextId = nextId /\ ~r.crashed

\* the stale item has been selected while the results panel was the active one,
\* with an output tab and an execution in flight
C22_Witness ==
  /\ customError = HistoryError /\ activePanel = "results-panel"
  /\ outputTabs # <<>> /\ inflight # <<>>

\* C23: handleTabClick with the id of an output tab makes the results panel the
\* active panel and that tab the active output tab; it requests one execution,
\* for that tab's catalog query and to be stored under that tab's id, exactly
\* when the tab has no stored payload and its queryId is in the catalog, and
\* otherwise requests none and leaves the payloads as they are. When such an
\* execution completes, its rows are stored under that same tab id and no other
\* payload changes.
C23_OutputTabClick ==
  /\ \A i \in DOMAIN outputTabs :
       UserCanAct =>
         LET id == outputTabs[i].id
             r == After(handleTabClick(Snap, id))
             n == Len(inflight)
         IN /\ r.activePanel = "results-panel"
            /\ r.activeOutputTabId = id
            /\ r.tabResults = tabResults
            /\ IF id \notin DOMAIN tabResults /\ outputTabs[i].queryId \in CatalogIds
               THEN /\ Len(r.inflight) = n + 1
                    /\ SubSeq(r.inflight, 1, n) = inflight
                    /\ r.inflight[n + 1].tabId = id
                    /\ r.inflight[n + 1].queryId = outputTabs[i].queryId
               ELSE r.inflight = inflight
  /\ \A k \in DOMAIN inflight : \A elapsed \in ExecTimes, clock \in Clocks :
       (~crashed /\ timers = <<>> /\ inflight[k].kind = "select") =>
         LET r == After(adapterComplete(Snap, k, elapsed, clock))
             id == inflight[k].tabId
         IN /\ id \in DOMAIN r.tabResults
            /\ r.tabResults[id].data = inflight[k].queryId
            /\ \A other \in DOMAIN r.tabResults \ {id} :
                 other \in DOMAIN tabResults /\ r.tabResults[other] = tabResults[other]

\* an output tab without a payload has been clicked: it is the active output tab
\* on the results panel and the execution the click requested is in flight, while
\* another output tab has its payload
C23_Witness ==
  /\ UserCanAct /\ activePanel = "results-panel"
  /\ \E k \in DOMAIN inflight :
       /\ inflight[k].kind = "select"
       /\ inflight[k].tabId = activeOutputTabId
       /\ activeOutputTabId \in TabIds(outputTabs)
  /\ \E j \in DOMAIN outputTabs : outputTabs[j].id \in DOMAIN tabResults

\* C24: toggleOutputMode leaves full screen, turns a vertical layout into a
\* horizontal one and a horizontal into a vertical one, makes the results panel
\* the active panel exactly when the layout was vertical and results exist, and
\* otherwise leaves activePanel as it is; tab lists, payloads and active tab ids
\* stay as they are.
C24_ToggleOutputMode ==
  (UserCanAct /\ OutputBarShown) =>
    LET r == After(toggleOutputMode(Snap))
    IN /\ ~r.isFullScreen
       /\ layoutDirection = "vertical" => r.layoutDirection = "horizontal"
       /\ layoutDirection = "horizontal" => r.layoutDirection = "vertical"
       /\ r.activePanel = IF layoutDirection = "vertical" /\ results # NoRows
                          THEN "results-panel" ELSE activePanel
       /\ r.queryTabs = queryTabs /\ r.outputTabs = outputTabs
       /\ r.tabResults = tabResults
       /\ r.activeTabId = activeTabId /\ r.activeOutputTabId = activeOutputTabId

\* C24, amended: the same, the results panel becoming the active panel exactly
\* when the layout was vertical, results exist and no execution is loading.
C24_ToggleOutputModeAmended ==
  (UserCanAct /\ OutputBarShown) =>
    LET r == After(toggleOutputMode(Snap))
    IN /\ ~r.isFullScreen
       /\ layoutDirection = "vertical" => r.layoutDirection = "horizontal"
       /\ layoutDirection = "horizontal" => r.layoutDirection = "vertical"
       /\ r.activePanel = IF layoutDirection = "vertical" /\ results # NoRows /\ ~loading
                          THEN "results-panel" ELSE activePanel
       /\ r.queryTabs = queryTabs /\ r.outputTabs = outputTabs
       /\ r.tabResults = tabResults
       /\ r.activeTabId = activeTabId /\ r.activeOutputTabId = activeOutputTabId

\* the toggle button is shown in a vertical layout on the editor panel, with the
\* results of an earlier execution and a later execution still loading
C24_Witness ==
  /\ UserCanAct /\ OutputBarShown /\ layoutDirection = "vertical"
  /\ results # NoRows /\ loading /\ activePanel = "editor-panel"

\* C25: when the no-matching-query message is shown, an edit of the text in the
\* editor clears it: after the edit the message is not shown any more.
C25_EditClearsNoMatchError ==
  \A value \in TypedTexts :
    (UserCanAct /\ EditorShown /\ customError = NoMatchError /\ value # edQuery) =>
      After(handleEditorChange(Snap, value)).customError = NoError

\* C26: when the adapter completes an execution that an execute or a history
\* select requested, the payload stored for its output tab holds the rows of that
\* execution's query and the elapsed time of that execution, and no payload of
\* another output tab changes, however many executions are in flight.
C26_PayloadOfOwnExecution ==
  \A k \in DOMAIN inflight : \A elapsed \in ExecTimes, clock \in Clocks :
    (mounted /\ ~crashed /\ timers = <<>> /\ inflight[k].kind # "select") =>
      LET r == After(adapterComplete(Snap, k, elapsed, clock))
          id == inflight[k].tabId
      IN /\ id \in DOMAIN r.tabResults
         /\ r.tabResults[id].data = inflight[k].queryId
         /\ r.tabResults[id].executionTime = elapsed
         /\ \A other \in DOMAIN r.tabResults \ {id} :
              other \in DOMAIN tabResults /\ r.tabResults[other] = tabResults[other]

\* C27: on both paths that execute and create an output tab, the output tab is
\* in the output-tab list without a payload before its payload is stored: a step
\* that stores a payload under a new id starts in a state where an output tab
\* with that id exists.
C27_TabBeforePayload ==
  [][\A id \in DOMAIN tabResults' :
       id \notin DOMAIN tabResults => id \in TabIds(outputTabs)]_vars

\* C28: activeOutputTabId is null or the id of an output tab of the list, it is
\* not null while the list has an output tab, and closing an output tab other
\* than the active one leaves it as it is.
C28_ActiveOutputTabExists ==
  /\ activeOutputTabId = Null \/ activeOutputTabId \in TabIds(outputTabs)
  /\ outputTabs # <<>> => activeOutputTabId # Null
  /\ \A i \in DOMAIN outputTabs :
       (UserCanAct /\ outputTabs[i].id # activeOutputTabId) =>
         LET r == After(closeOutputTab(Snap, outputTabs[i].id, TRUE))
         IN /\ r.activeOutputTabId = activeOutputTabId
            /\ r.activeOutputTabId \in TabIds(r.outputTabs)

\* three output tabs are open and the oldest is the active one, so that closing
\* another leaves a more recent tab next to it
C28_Witness ==
  /\ UserCanAct /\ Len(outputTabs) = 3
  /\ activeOutputTabId = outputTabs[1].id

\* C29: once the effects and the flag-clearing timers that follow a tab switch,
\* addNewTab, a table click, a history select or a query-selector change have all
\* run, queryText is the stored text of the active editor tab, currentQueryId is
\* its queryId, the editor shows queryText, and isUpdatingTab and isUpdatingQuery
\* are both false.
C29_SynchronizerConverges ==
  (mounted /\ ~crashed /\ timers = <<>>) =>
    /\ activeTabId \in TabIds(queryTabs)
    /\ queryText = queryTabs[FindTab(queryTabs, activeTabId)].query
    /\ currentQueryId = queryTabs[FindTab(queryTabs, activeTabId)].queryId
    /\ edQuery = queryText
    /\ ~isUpdatingTab /\ ~isUpdatingQuery

\* C30: whenever an output tab with a stored payload is the active one and no
\* execution is loading, currentQueryId is the id of a catalog query, so the
\* results toolbar never reads the name of a missing query; also after a table
\* click made an editor tab with an empty queryId the active one.
C30_ResultsQueryInCatalog ==
  (/\ activeOutputTabId # Null
   /\ activeOutputTabId \in DOMAIN tabResults
   /\ ~loading) => currentQueryId \in CatalogIds

====
